---- MODULE Spec2Model ----
(***************************************************************************)
(* Reward functions of DRL4AMM/rewards/RewardFunctions.py.                 *)
(*                                                                         *)
(* A caller constructs one reward function instance and then calls its     *)
(* calculate method on transitions (current_state, action, next_state,     *)
(* is_terminal_step).  Numbers are modelled by integers: sums, differences *)
(* and products are exact, the rounding and the overflow of float64 in     *)
(* them are outside the model.  np.exp is modelled in fixed point with     *)
(* ExpScale units per 1.0: its result is rounded to the nearest unit, is 0 *)
(* once the argument is small enough (underflow) and is Infinity above     *)
(* ExpOverflowArg.  The rewards of TerminalExponentialUtility are in units *)
(* of 1/ExpScale.                                                          *)
(***************************************************************************)
EXTENDS Integers, Sequences, FiniteSets, TLC

VARIABLES ctor, self, current_state, action, next_state, is_terminal_step,
          phi, terminal_penalty, budget, rewards

vars == <<ctor, self, current_state, action, next_state, is_terminal_step,
          phi, terminal_penalty, budget, rewards>>

(* ------------------------------ bounds --------------------------------- *)
MaxInventory == 2
MaxPenalty == 1
MaxExponent == 2

(* observation space is (stock_price, cash, inventory, time) *)
Prices == {1, 2}
Cash == {0, 1}
Inventories == (-MaxInventory)..MaxInventory
Times == {0, 1}
Observations == {<<p, c, q, t>> : p \in Prices, c \in Cash, q \in Inventories, t \in Times}
Actions == {"bid", "ask"}

(* values a caller can pass for the coefficients; the type hints ask for    *)
(* non-negative aversions and penalties and a positive exponent             *)
Penalties == 0..MaxPenalty
RiskAversions == {-1, 0, 1, 2}
Aversions == {-1, 0, 1}
Exponents == 0..MaxExponent
StepSizes == {1, 2}

(* numpy arrays are indexed from 0 *)
At(v, i) == v[i + 1]

Abs(x) == IF x < 0 THEN -x ELSE x

RECURSIVE Pow(_, _)
Pow(b, e) == IF e = 0 THEN 1 ELSE b * Pow(b, e - 1)

(* bool used as a number: True is 1, False is 0 *)
BoolAsInt(b) == IF b THEN 1 ELSE 0

(* ------------------------------ np.exp --------------------------------- *)
ExpScale == 1000
ExpOverflowArg == 6
Infinity == 1000000000

RECURSIVE ExpFix(_)
ExpFix(n) ==
    IF n = 0 THEN ExpScale
    ELSE IF n > 0 THEN (ExpFix(n - 1) * 2718 + 500) \div 1000
    ELSE (ExpFix(n + 1) * 1000 + 1359) \div 2718

np_exp(x) == IF x > ExpOverflowArg THEN Infinity ELSE ExpFix(x)

(* --------------------------- calculate --------------------------------- *)
(* mutant: the next inventory is valued at the current price *)
PnL_calculate_stale_price(current, act, next, is_terminal) ==
    LET current_market_value == At(current, 1) + At(current, 0) * At(current, 2)
        next_market_value == At(next, 1) + At(current, 0) * At(next, 2)
    IN  next_market_value - current_market_value

(* mutant: the two market values are added *)
PnL_calculate_added(current, act, next, is_terminal) ==
    LET current_market_value == At(current, 1) + At(current, 0) * At(current, 2)
        next_market_value == At(next, 1) + At(next, 0) * At(next, 2)
    IN  next_market_value + current_market_value

PnL_calculate(current, act, next, is_terminal) ==
    LET current_market_value == At(current, 1) + At(current, 0) * At(current, 2)
        next_market_value == At(next, 1) + At(next, 0) * At(next, 2)
    IN  next_market_value - current_market_value

(* mutant: the running penalty is not weighted by phi *)
CJ_criterion_calculate_no_phi(current, act, next, is_terminal, ph, penalty) ==
    LET current_market_value == At(current, 1) + At(current, 0) * At(current, 2)
        next_market_value == At(next, 1) + At(next, 0) * At(next, 2)
        dt == At(next, 3) - At(current, 3)
    IN  IF is_terminal
        THEN next_market_value - current_market_value
               - dt * Pow(At(next, 2) - At(current, 2), 2)
               - penalty * Pow(At(next, 2) - At(current, 2), 2)
        ELSE next_market_value - current_market_value
               - dt * Pow(At(next, 2) - At(current, 2), 2)

(* mutant: the penalties are on the inventory held, not on its change *)
CJ_criterion_calculate_level(current, act, next, is_terminal, ph, penalty) ==
    LET current_market_value == At(current, 1) + At(current, 0) * At(current, 2)
        next_market_value == At(next, 1) + At(next, 0) * At(next, 2)
        dt == At(next, 3) - At(current, 3)
    IN  IF is_terminal
        THEN next_market_value - current_market_value
               - dt * ph * Pow(At(next, 2), 2)
               - penalty * Pow(At(next, 2), 2)
        ELSE next_market_value - current_market_value
               - dt * ph * Pow(At(next, 2), 2)

CJ_criterion_calculate(current, act, next, is_terminal, ph, penalty) ==
    LET current_market_value == At(current, 1) + At(current, 0) * At(current, 2)
        next_market_value == At(next, 1) + At(next, 0) * At(next, 2)
        dt == At(next, 3) - At(current, 3)
    IN  IF is_terminal
        THEN next_market_value - current_market_value
               - dt * ph * Pow(At(next, 2) - At(current, 2), 2)
               - penalty * Pow(At(next, 2) - At(current, 2), 2)
        ELSE next_market_value - current_market_value
               - dt * ph * Pow(At(next, 2) - At(current, 2), 2)

(* mutant: the utility is returned on every step *)
TerminalExponentialUtility_calculate_every_step(obj, current, act, next, is_terminal) ==
    -np_exp(-obj.risk_aversion * (At(next, 1) + At(next, 0) * At(next, 2)))

(* mutant: the sign of the exponent is lost *)
TerminalExponentialUtility_calculate_sign(obj, current, act, next, is_terminal) ==
    IF is_terminal
    THEN -np_exp(obj.risk_aversion * (At(next, 1) + At(next, 0) * At(next, 2)))
    ELSE 0

TerminalExponentialUtility_calculate(obj, current, act, next, is_terminal) ==
    IF is_terminal
    THEN -np_exp(-obj.risk_aversion * (At(next, 1) + At(next, 0) * At(next, 2)))
    ELSE 0

(* mutant: the per-step term is not weighted by per_step_inventory_aversion *)
InventoryAdjustedPnL_calculate_no_aversion(obj, current, act, next, is_terminal) ==
    LET inventory_aversion ==
            BoolAsInt(is_terminal) * obj.terminal_inventory_aversion
            + (1 - BoolAsInt(is_terminal)) * obj.step_size
    IN  PnL_calculate(current, act, next, FALSE)
          - inventory_aversion * Pow(Abs(At(next, 2)), obj.inventory_exponent)

(* mutant: the per-step term is not switched off on a terminal step *)
InventoryAdjustedPnL_calculate_both(obj, current, act, next, is_terminal) ==
    LET inventory_aversion ==
            BoolAsInt(is_terminal) * obj.terminal_inventory_aversion
            + obj.step_size * obj.per_step_inventory_aversion
    IN  PnL_calculate(current, act, next, FALSE)
          - inventory_aversion * Pow(Abs(At(next, 2)), obj.inventory_exponent)

InventoryAdjustedPnL_calculate(obj, current, act, next, is_terminal) ==
    LET inventory_aversion ==
            BoolAsInt(is_terminal) * obj.terminal_inventory_aversion
            + (1 - BoolAsInt(is_terminal)) * obj.step_size * obj.per_step_inventory_aversion
    IN  PnL_calculate(current, act, next, FALSE)
          - inventory_aversion * Pow(Abs(At(next, 2)), obj.inventory_exponent)

(* --------------------------- construction ------------------------------ *)
NoInstance == [kind |-> "none"]

PnL_new == [kind |-> "PnL"]

CJ_criterion_new == [kind |-> "CJ_criterion"]

TerminalExponentialUtility_new(risk_aversion) ==
    [kind |-> "TerminalExponentialUtility", risk_aversion |-> risk_aversion]

InventoryAdjustedPnL_new(per_step, terminal, exponent, step) ==
    [kind |-> "InventoryAdjustedPnL",
     per_step_inventory_aversion |-> per_step,
     terminal_inventory_aversion |-> terminal,
     pnl_reward |-> PnL_new,
     inventory_exponent |-> exponent,
     step_size |-> step]

(* the constructor calls a caller can write *)
ConstructorCalls ==
    {[kind |-> "PnL"], [kind |-> "CJ_criterion"]}
    \cup {[kind |-> "TerminalExponentialUtility", risk_aversion |-> r] : r \in RiskAversions}
    \cup {[kind |-> "InventoryAdjustedPnL",
           per_step_inventory_aversion |-> a, terminal_inventory_aversion |-> b,
           inventory_exponent |-> e, step_size |-> h] :
              a \in Aversions, b \in Aversions, e \in Exponents, h \in StepSizes}

(* phi and terminal_penalty are arguments of CJ_criterion.calculate only *)
PenaltiesOf(kind) == IF kind = "CJ_criterion" THEN Penalties ELSE {0}

(* ------------------------------ states --------------------------------- *)
InitWith(calls, observations) ==
    /\ ctor \in ConstructorCalls
    /\ self = NoInstance
    /\ current_state \in observations
    /\ next_state \in observations
    /\ action \in Actions
    /\ is_terminal_step \in BOOLEAN
    /\ phi \in PenaltiesOf(ctor.kind)
    /\ terminal_penalty \in PenaltiesOf(ctor.kind)
    /\ budget = calls
    /\ rewards = <<>>

(* one transition is rewarded *)
Init == InitWith(1, Observations)

(* the same instance is called three times in a row *)
InitSeq == InitWith(3, Observations)

Construct(obj) ==
    /\ self = NoInstance
    /\ self' = obj
    /\ UNCHANGED <<ctor, current_state, action, next_state, is_terminal_step,
                   phi, terminal_penalty, budget, rewards>>

PnL_init ==
    /\ ctor.kind = "PnL"
    /\ Construct(PnL_new)

CJ_criterion_init ==
    /\ ctor.kind = "CJ_criterion"
    /\ Construct(CJ_criterion_new)

TerminalExponentialUtility_init ==
    /\ ctor.kind = "TerminalExponentialUtility"
    /\ Construct(TerminalExponentialUtility_new(ctor.risk_aversion))

InventoryAdjustedPnL_init ==
    /\ ctor.kind = "InventoryAdjustedPnL"
    /\ Construct(InventoryAdjustedPnL_new(ctor.per_step_inventory_aversion,
                                          ctor.terminal_inventory_aversion,
                                          ctor.inventory_exponent, ctor.step_size))

(* The caller passes its two observation vectors in order on odd calls and *)
(* exchanged on even calls.                                                *)
Exchanged(n) == n % 2 = 0
CurrentArg(n) == IF Exchanged(n) THEN next_state ELSE current_state
NextArg(n) == IF Exchanged(n) THEN current_state ELSE next_state

Return(r) ==
    /\ rewards' = Append(rewards, r)
    /\ budget' = budget - 1
    /\ UNCHANGED <<ctor, self, current_state, action, next_state, is_terminal_step,
                   phi, terminal_penalty>>

PnL_calculate_call ==
    /\ self.kind = "PnL"
    /\ budget > 0
    /\ LET n == Len(rewards) + 1
       IN  Return(PnL_calculate(CurrentArg(n), action, NextArg(n), is_terminal_step))

CJ_criterion_calculate_call ==
    /\ self.kind = "CJ_criterion"
    /\ budget > 0
    /\ LET n == Len(rewards) + 1
       IN  Return(CJ_criterion_calculate(CurrentArg(n), action, NextArg(n),
                                         is_terminal_step, phi, terminal_penalty))

TerminalExponentialUtility_calculate_call ==
    /\ self.kind = "TerminalExponentialUtility"
    /\ budget > 0
    /\ LET n == Len(rewards) + 1
       IN  Return(TerminalExponentialUtility_calculate(self, CurrentArg(n), action,
                                                       NextArg(n), is_terminal_step))

(* mutant: the call stores the per-step coefficient it computed in the instance *)
InventoryAdjustedPnL_calculate_call_storing ==
    /\ self.kind = "InventoryAdjustedPnL"
    /\ budget > 0
    /\ LET n == Len(rewards) + 1
       IN  rewards' = Append(rewards,
                             InventoryAdjustedPnL_calculate(self, CurrentArg(n), action,
                                                            NextArg(n), is_terminal_step))
    /\ self' = [self EXCEPT !.per_step_inventory_aversion =
                               self.step_size * self.per_step_inventory_aversion]
    /\ budget' = budget - 1
    /\ UNCHANGED <<ctor, current_state, action, next_state, is_terminal_step,
                   phi, terminal_penalty>>

InventoryAdjustedPnL_calculate_call ==
    /\ self.kind = "InventoryAdjustedPnL"
    /\ budget > 0
    /\ LET n == Len(rewards) + 1
       IN  Return(InventoryAdjustedPnL_calculate(self, CurrentArg(n), action,
                                                 NextArg(n), is_terminal_step))

Next ==
    \/ PnL_init
    \/ CJ_criterion_init
    \/ TerminalExponentialUtility_init
    \/ InventoryAdjustedPnL_init
    \/ PnL_calculate_call
    \/ CJ_criterion_calculate_call
    \/ TerminalExponentialUtility_calculate_call
    \/ InventoryAdjustedPnL_calculate_call

Spec == Init /\ [][Next]_vars

SpecSeq == InitSeq /\ [][Next]_vars

(* ------------------------------ claims --------------------------------- *)
Called == Len(rewards) >= 1
Kind(k) == self.kind = k
MarketValue(o) == o[2] + o[1] * o[3]
InventoryChange == next_state[3] - current_state[3]
TimeChange == next_state[4] - current_state[4]

(* C1: PnL.calculate returns the market value of the next observation minus *)
(* that of the current one, whatever the action and the terminal flag are.  *)
C1_PnLFormula ==
    (Kind("PnL") /\ Called) =>
        /\ rewards[1] = (next_state[2] + next_state[1] * next_state[3])
                          - (current_state[2] + current_state[1] * current_state[3])
        /\ \A a \in Actions, t \in BOOLEAN :
              PnL_calculate(current_state, a, next_state, t) = rewards[1]

C1_Witness ==
    /\ Kind("PnL") /\ Called /\ is_terminal_step /\ action = "ask"
    /\ current_state = <<1, 0, 0, 0>> /\ next_state = <<2, 0, 1, 1>>
    /\ rewards[1] = 2

(* C2: a call of calculate changes neither the fields of the instance, which *)
(* keep the values the constructor was given, nor the argument vectors, and  *)
(* a call returns what every earlier call with the same arguments returned.  *)
ConfigAsConstructed ==
    /\ self.kind = ctor.kind
    /\ Kind("TerminalExponentialUtility") => self.risk_aversion = ctor.risk_aversion
    /\ Kind("InventoryAdjustedPnL") =>
          /\ self.per_step_inventory_aversion = ctor.per_step_inventory_aversion
          /\ self.terminal_inventory_aversion = ctor.terminal_inventory_aversion
          /\ self.inventory_exponent = ctor.inventory_exponent
          /\ self.step_size = ctor.step_size

SameArguments(i, j) == Exchanged(i) = Exchanged(j) \/ current_state = next_state

C2_CallsLeaveNoTrace ==
    [][(Len(rewards') = Len(rewards) + 1) =>
          /\ self' = self
          /\ ConfigAsConstructed'
          /\ current_state' = current_state /\ next_state' = next_state
          /\ action' = action /\ is_terminal_step' = is_terminal_step
          /\ \A i \in 1..Len(rewards) :
                SameArguments(i, Len(rewards'))
                   => rewards'[Len(rewards')] = rewards'[i]]_vars

C2_Witness ==
    /\ Kind("InventoryAdjustedPnL") /\ Len(rewards) = 3
    /\ self.per_step_inventory_aversion = 1 /\ self.step_size = 2
    /\ rewards[3] = rewards[1] /\ rewards[2] # rewards[1]

(* C3: no instance holds a negative risk_aversion, a negative               *)
(* per_step_inventory_aversion or terminal_inventory_aversion, or a          *)
(* non-positive inventory_exponent: such a construction fails.               *)
C3_InvalidConfigurationRejected ==
    /\ Kind("TerminalExponentialUtility") => self.risk_aversion >= 0
    /\ Kind("InventoryAdjustedPnL") =>
          /\ self.per_step_inventory_aversion >= 0
          /\ self.terminal_inventory_aversion >= 0
          /\ self.inventory_exponent > 0

(* C4: TerminalExponentialUtility.calculate returns 0 on a non-terminal step. *)
C4_NonTerminalIsZero ==
    (Kind("TerminalExponentialUtility") /\ Called /\ ~is_terminal_step) =>
        rewards[1] = 0

C4_Witness ==
    /\ Kind("TerminalExponentialUtility") /\ Called /\ ~is_terminal_step
    /\ self.risk_aversion = 1 /\ MarketValue(next_state) = 3
    /\ rewards[1] = 0

(* C5: InventoryAdjustedPnL with both aversions 0 returns what PnL.calculate *)
(* returns on the same arguments, on terminal and non-terminal steps.        *)
C5_ZeroAversionIsPnL ==
    (/\ Kind("InventoryAdjustedPnL") /\ Called
     /\ self.per_step_inventory_aversion = 0
     /\ self.terminal_inventory_aversion = 0) =>
        rewards[1] = PnL_calculate(current_state, action, next_state, is_terminal_step)

C5_Witness ==
    /\ Kind("InventoryAdjustedPnL") /\ Called /\ ~is_terminal_step
    /\ self.per_step_inventory_aversion = 0 /\ self.terminal_inventory_aversion = 0
    /\ self.inventory_exponent = 2 /\ self.step_size = 2
    /\ next_state[3] = 2 /\ rewards[1] = 3

(* C6: CJ_criterion.calculate with phi = 0 and terminal_penalty = 0 returns  *)
(* what PnL.calculate returns, on terminal and non-terminal steps.           *)
C6_ZeroPenaltyIsPnL ==
    (Kind("CJ_criterion") /\ Called /\ phi = 0 /\ terminal_penalty = 0) =>
        rewards[1] = PnL_calculate(current_state, action, next_state, is_terminal_step)

C6_Witness ==
    /\ Kind("CJ_criterion") /\ Called /\ phi = 0 /\ terminal_penalty = 0
    /\ is_terminal_step /\ InventoryChange = 2 /\ TimeChange = 1
    /\ rewards[1] = 4

(* C7: PnL.calculate on exchanged observations returns the negated reward,   *)
(* and 0 when both observations are the same.                                *)
C7_PnLAntisymmetric ==
    (Kind("PnL") /\ Called) =>
        /\ PnL_calculate(next_state, action, current_state, is_terminal_step) = -rewards[1]
        /\ PnL_calculate(current_state, action, current_state, is_terminal_step) = 0
        /\ PnL_calculate(next_state, action, next_state, is_terminal_step) = 0
        /\ current_state = next_state => rewards[1] = 0

C7_Witness ==
    /\ Kind("PnL") /\ Called
    /\ rewards[1] = -3
    /\ PnL_calculate(next_state, action, current_state, is_terminal_step) = 3

(* C8 as stated: on a terminal step TerminalExponentialUtility.calculate     *)
(* with a non-negative risk_aversion returns -exp(-risk_aversion * w) for    *)
(* the wealth w of the next observation, a strictly negative value that does *)
(* not decrease when w grows and does not depend on the current observation. *)
UtilityOf(o) == TerminalExponentialUtility_calculate(self, current_state, action, o, TRUE)

C8_UtilityShape ==
    /\ rewards[1] = -np_exp(-self.risk_aversion * MarketValue(next_state))
    /\ \A o \in Observations :
          MarketValue(o) >= MarketValue(next_state) => UtilityOf(o) >= rewards[1]
    /\ \A o \in Observations :
          TerminalExponentialUtility_calculate(self, o, action, next_state, TRUE) = rewards[1]

C8_Case ==
    /\ Kind("TerminalExponentialUtility") /\ Called /\ is_terminal_step
    /\ self.risk_aversion >= 0

C8_StrictlyNegative == C8_Case => (C8_UtilityShape /\ rewards[1] < 0)

(* C8 amended: the value returned is -exp(-risk_aversion * w) as np.exp      *)
(* computes it, never positive (it is zero once the exponential underflows), *)
(* does not decrease when w grows and does not depend on the current         *)
(* observation.                                                              *)
C8_NeverPositive == C8_Case => (C8_UtilityShape /\ rewards[1] <= 0)

C8_Witness ==
    /\ C8_Case /\ self.risk_aversion = 1
    /\ MarketValue(next_state) = 2 /\ rewards[1] = -135
    /\ \E o \in Observations : UtilityOf(o) = -50

(* C9: CJ_criterion.calculate returns PnL - dt*phi*d_inv^2, less             *)
(* terminal_penalty*d_inv^2 on a terminal step; the terminal reward is the   *)
(* non-terminal one less terminal_penalty*d_inv^2, and the penalty is the    *)
(* same when both inventories are moved by the same amount.                  *)
(* the observation o with k more units of inventory, paid for in cash at the *)
(* price of o, so that its market value is the same                         *)
MoveInventory(o, k) == <<o[1], o[2] - o[1] * k, o[3] + k, o[4]>>

C9_CJFormula ==
    (Kind("CJ_criterion") /\ Called) =>
        LET pnl == PnL_calculate(current_state, action, next_state, is_terminal_step)
            running == TimeChange * phi * InventoryChange * InventoryChange
            final == terminal_penalty * InventoryChange * InventoryChange
        IN  /\ rewards[1] = IF is_terminal_step THEN pnl - running - final
                                                ELSE pnl - running
            /\ CJ_criterion_calculate(current_state, action, next_state, TRUE,
                                      phi, terminal_penalty)
                 = CJ_criterion_calculate(current_state, action, next_state, FALSE,
                                          phi, terminal_penalty) - final
            /\ \A k \in {-1, 1} :
                  CJ_criterion_calculate(MoveInventory(current_state, k), action,
                                         MoveInventory(next_state, k), is_terminal_step,
                                         phi, terminal_penalty) = rewards[1]

C9_Witness ==
    /\ Kind("CJ_criterion") /\ Called /\ is_terminal_step
    /\ phi = 1 /\ terminal_penalty = 1 /\ TimeChange = 1 /\ InventoryChange = -2
    /\ next_state[3] = 0
    /\ rewards[1] = PnL_calculate(current_state, action, next_state, TRUE) - 8

(* C10: InventoryAdjustedPnL.calculate returns PnL - a*|next inventory|^e    *)
(* with a = terminal_inventory_aversion on a terminal step and               *)
(* a = step_size * per_step_inventory_aversion otherwise; with               *)
(* terminal_inventory_aversion = 0 a terminal reward is the PnL.             *)
C10_OneCoefficient ==
    (Kind("InventoryAdjustedPnL") /\ Called) =>
        LET pnl == PnL_calculate(current_state, action, next_state, is_terminal_step)
            a == IF is_terminal_step THEN self.terminal_inventory_aversion
                 ELSE self.step_size * self.per_step_inventory_aversion
        IN  /\ rewards[1] = pnl - a * Pow(Abs(next_state[3]), self.inventory_exponent)
            /\ (is_terminal_step /\ self.terminal_inventory_aversion = 0)
                  => rewards[1] = pnl

C10_Witness ==
    /\ Kind("InventoryAdjustedPnL") /\ Called /\ is_terminal_step
    /\ self.terminal_inventory_aversion = 0 /\ self.per_step_inventory_aversion = 1
    /\ self.inventory_exponent = 2 /\ next_state[3] = -2
    /\ rewards[1] = PnL_calculate(current_state, action, next_state, TRUE)

====
